---------------------------- MODULE Spec2Model ----------------------------
(***************************************************************************)
(* Model of hashmemo (src/src/lib.rs): HashMemo<T, H>, a wrapper that      *)
(* memoizes the hash of its value in an AtomicU64.                         *)
(*                                                                         *)
(* T is modelled as a small unsigned integer type (its Hash impl writes    *)
(* the integer with write_u64, its Eq/Ord are those of the integers).      *)
(* H is one BuildHasher type whose instances differ by a seed; the hasher  *)
(* it builds starts from the seed and folds every written word into it.    *)
(* Seed 0 is the identity hasher on a single word, as NoHashHasher in the  *)
(* tests, and is what BuildHasherDefault::default() stands for.            *)
(*                                                                         *)
(* The atomics are all Relaxed and each wrapper has one atomic cell, so    *)
(* by coherence the load and the compare_exchange of one cell are atomic   *)
(* steps of an interleaving.                                               *)
(***************************************************************************)
EXTENDS Integers, Sequences, FiniteSets, TLC

\* ------------------------------------------------------------------ bounds
MaxInst  == 2      \* wrapper instances ever created
NThreads == 2      \* threads sharing the wrappers
MaxCalls == 2      \* hash calls started per instance
MaxValue == 1      \* wrapped values are 0..MaxValue
MaxSeed  == 1      \* strategy instances are seeds 0..MaxSeed
DigestMod == 3     \* digests are 0..DigestMod-1 (stands for 2^64)

Insts   == 1..MaxInst
Threads == 1..NThreads
Values  == 0..MaxValue
Seeds   == 0..MaxSeed

\* ------------------------------------------------------- program constants
U64_MIN == 0
DefaultSeed == 0

VARIABLES
  st,             \* lifecycle of each slot: "free", "live", "moved"
  value,          \* HashMemo.value
  hash,           \* HashMemo.hash (the AtomicU64 cache cell)
  hasher,         \* HashMemo.hasher (the strategy instance)
  pc,             \* position of each thread inside calculate_hash / hash
  self,           \* the wrapper a thread is hashing (0 when idle)
  loaded,         \* the local `hash` of a running call
  computed_hash,  \* the local `computed_hash` of a running call
  state,          \* the caller's hasher state: the words written to it
  ret,            \* result of the last completed non-hash operation
  \* history variables
  orig,           \* the raw value the wrapper was constructed from
  cloneOf,        \* source instance of a clone (0 otherwise)
  warm,           \* a hash call on the source had returned when it was cloned
  born,           \* the cache word the wrapper was constructed with
  wins,           \* compare-and-swaps that succeeded on the instance's cell
  started,        \* hash calls started on the instance
  computes,       \* times the strategy digested the instance's value
  overlap,        \* two hash calls on the instance ran at the same time
  fed             \* digests written to hasher states for the instance

wrapperVars == <<st, value, hash, hasher>>
threadVars  == <<pc, self, loaded, computed_hash, state>>
histVars    == <<orig, cloneOf, warm, born, wins, started, computes, overlap, fed>>
vars == <<st, value, hash, hasher, pc, self, loaded, computed_hash, state, ret,
          orig, cloneOf, warm, born, wins, started, computes, overlap, fed>>

\* ----------------------------------------------------------- the strategy
\* BuildHasher::build_hasher: a fresh hasher whose accumulator is the seed.
BuildHasher(s) == s

\* Hasher::write_u64 of the strategy's hasher.
HasherWriteU64(h, w) == (h + w) % DigestMod

\* Hasher::finish of the strategy's hasher.
HasherFinish(h) == h

\* <T as Hash>::hash for the integer T: the words it writes to a hasher.
ValueHash(v) == <<v>>

RECURSIVE HasherWriteAll(_, _)
HasherWriteAll(h, ws) ==
  IF ws = <<>> THEN h
  ELSE HasherWriteAll(HasherWriteU64(h, Head(ws)), Tail(ws))

\* BuildHasher::hash_one(&value): build, feed the value, finish.
HashOne(s, v) == HasherFinish(HasherWriteAll(BuildHasher(s), ValueHash(v)))

\* Every digest with its low bit forced to 1.
ForceLowBit(d) == IF d % 2 = 0 THEN d + 1 ELSE d

\* The digest stored as it is, zero included.
NoRemap(d) == d

\* NonZeroU64::new(d).map(NonZeroU64::get).unwrap_or(u64::MIN | 1)
NonZeroOr1(d) == IF d # 0 THEN d ELSE 1

\* ------------------------------------------------------------------- Init
NoRet == [op |-> "none", a |-> 0, b |-> 0, val |-> 0]

Init ==
  /\ st = [i \in Insts |-> "free"]
  /\ value = [i \in Insts |-> 0]
  /\ hash = [i \in Insts |-> U64_MIN]
  /\ hasher = [i \in Insts |-> DefaultSeed]
  /\ pc = [t \in Threads |-> "idle"]
  /\ self = [t \in Threads |-> 0]
  /\ loaded = [t \in Threads |-> 0]
  /\ computed_hash = [t \in Threads |-> 0]
  /\ state = [t \in Threads |-> <<>>]
  /\ ret = NoRet
  /\ orig = [i \in Insts |-> 0]
  /\ cloneOf = [i \in Insts |-> 0]
  /\ warm = [i \in Insts |-> FALSE]
  /\ born = [i \in Insts |-> 0]
  /\ wins = [i \in Insts |-> 0]
  /\ started = [i \in Insts |-> 0]
  /\ computes = [i \in Insts |-> 0]
  /\ overlap = [i \in Insts |-> FALSE]
  /\ fed = [i \in Insts |-> {}]

\* ----------------------------------------------------------- construction
HasFree == \E i \in Insts : st[i] = "free"
NextFree == CHOOSE i \in Insts : st[i] = "free" /\ \A j \in Insts : st[j] = "free" => i <= j

\* The struct literal of with_hasher / clone placed in the next free slot.
Construct(j, v, h, s, src, o, w) ==
  /\ st' = [st EXCEPT ![j] = "live"]
  /\ value' = [value EXCEPT ![j] = v]
  /\ hash' = [hash EXCEPT ![j] = h]
  /\ hasher' = [hasher EXCEPT ![j] = s]
  /\ orig' = [orig EXCEPT ![j] = o]
  /\ cloneOf' = [cloneOf EXCEPT ![j] = src]
  /\ warm' = [warm EXCEPT ![j] = w]
  /\ born' = [born EXCEPT ![j] = h]
  /\ UNCHANGED <<pc, self, loaded, computed_hash, state, ret,
                 wins, started, computes, overlap, fed>>

\* A constructor that digests the value eagerly.
WithHasherEager(v, s) ==
  /\ HasFree
  /\ Construct(NextFree, v, IF HashOne(s, v) # 0 THEN HashOne(s, v) ELSE 1, s, 0, v, FALSE)

\* HashMemo::with_hasher(value, hasher)
WithHasher(v, s) ==
  /\ HasFree
  /\ Construct(NextFree, v, U64_MIN, s, 0, v, FALSE)

\* HashMemo::new(value)
New(v) ==
  /\ HasFree
  /\ Construct(NextFree, v, U64_MIN, DefaultSeed, 0, v, FALSE)

\* <HashMemo as From<T>>::from(value)
From(v) ==
  /\ HasFree
  /\ Construct(NextFree, v, U64_MIN, DefaultSeed, 0, v, FALSE)

\* A clone that starts uncomputed.
CloneHashReset(src) == U64_MIN

\* The cache word a clone starts with: self.hash.load(Relaxed).
CloneHash(src) == hash[src]

\* <HashMemo as Clone>::clone(&self)
Clone(src) ==
  /\ st[src] = "live"
  /\ HasFree
  /\ Construct(NextFree, value[src], CloneHash(src), hasher[src], src,
               orig[src], fed[src] # {})

\* ---------------------------------------------------------------- hashing
Made(i) == st[i] # "free"
Running(t) == pc[t] \in {"loaded", "computed", "swapped"}
Borrowed(i) == \E t \in Threads : Running(t) /\ self[t] = i

\* calculate_hash: a fresh caller state, then hash() up to its cache load.
HashLoad(t, i) ==
  /\ pc[t] = "idle"
  /\ st[i] = "live"
  /\ started[i] < MaxCalls
  /\ pc' = [pc EXCEPT ![t] = "loaded"]
  /\ self' = [self EXCEPT ![t] = i]
  /\ loaded' = [loaded EXCEPT ![t] = hash[i]]
  /\ state' = [state EXCEPT ![t] = <<>>]
  /\ started' = [started EXCEPT ![i] = @ + 1]
  /\ overlap' = [overlap EXCEPT ![i] = @ \/ Borrowed(i)]
  /\ UNCHANGED <<wrapperVars, computed_hash, ret, orig, cloneOf, warm,
                 born, wins, computes, fed>>

\* state.write_u64(d); return  -- common to both paths
Feed(t, d) ==
  /\ state' = [state EXCEPT ![t] = Append(@, d)]
  /\ pc' = [pc EXCEPT ![t] = "done"]
  /\ fed' = [fed EXCEPT ![self[t]] = @ \cup {d}]

\* fast path: if hash != 0 { state.write_u64(hash); return; }
HashFast(t) ==
  /\ pc[t] = "loaded"
  /\ loaded[t] # 0
  /\ Feed(t, loaded[t])
  /\ UNCHANGED <<wrapperVars, self, loaded, computed_hash, ret, orig,
                 cloneOf, warm, born, wins, started, computes, overlap>>

\* The digest the slow path computes for instance i.
ComputedHash(i) == NonZeroOr1(HashOne(hasher[i], value[i]))

\* The slow path without the early return of the fast path before it.
HashComputeAlways(t) ==
  /\ pc[t] = "loaded"
  /\ computed_hash' = [computed_hash EXCEPT ![t] = ComputedHash(self[t])]
  /\ computes' = [computes EXCEPT ![self[t]] = @ + 1]
  /\ pc' = [pc EXCEPT ![t] = "computed"]
  /\ UNCHANGED <<wrapperVars, self, loaded, state, ret, orig, cloneOf,
                 warm, born, wins, started, overlap, fed>>

\* slow path: let computed_hash = ...
HashCompute(t) ==
  /\ pc[t] = "loaded"
  /\ loaded[t] = 0
  /\ computed_hash' = [computed_hash EXCEPT ![t] = ComputedHash(self[t])]
  /\ computes' = [computes EXCEPT ![self[t]] = @ + 1]
  /\ pc' = [pc EXCEPT ![t] = "computed"]
  /\ UNCHANGED <<wrapperVars, self, loaded, state, ret, orig, cloneOf,
                 warm, born, wins, started, overlap, fed>>

\* A compare_exchange whose expected value never matches: nothing is stored.
CompareExchangeNoStore(cell, current, new) == cell

\* AtomicU64::compare_exchange(current, new): the cell's new content.
CompareExchange(cell, current, new) == IF cell = current THEN new ELSE cell

\* A compare-and-swap on a cell that a wrapper shares with its clones.
HashCasShared(t) ==
  /\ pc[t] = "computed"
  /\ hash' = [i \in Insts |->
                IF i = self[t] \/ (Made(i) /\ cloneOf[i] = self[t]) \/ cloneOf[self[t]] = i
                THEN (IF hash[i] = U64_MIN THEN computed_hash[t] ELSE hash[i])
                ELSE hash[i]]
  /\ wins' = [wins EXCEPT ![self[t]] = IF hash[self[t]] = U64_MIN THEN @ + 1 ELSE @]
  /\ pc' = [pc EXCEPT ![t] = "swapped"]
  /\ UNCHANGED <<st, value, hasher, self, loaded, computed_hash, state, ret,
                 orig, cloneOf, warm, born, started, computes, overlap, fed>>

\* A compare-and-swap in a retry loop: on failure the call loads again.
HashCasRetry(t) ==
  /\ pc[t] = "computed"
  /\ hash' = [hash EXCEPT ![self[t]] = IF @ = U64_MIN THEN computed_hash[t] ELSE @]
  /\ wins' = [wins EXCEPT ![self[t]] = IF hash[self[t]] = U64_MIN THEN @ + 1 ELSE @]
  /\ pc' = [pc EXCEPT ![t] = IF hash[self[t]] = U64_MIN THEN "swapped" ELSE "loaded"]
  /\ loaded' = [loaded EXCEPT ![t] = hash[self[t]]]
  /\ UNCHANGED <<st, value, hasher, self, computed_hash, state, ret,
                 orig, cloneOf, warm, born, started, computes, overlap, fed>>

\* AtomicU64::compare_exchange(current, new): Ok (TRUE) or Err (FALSE).
CompareExchangeOk(cell, current) == cell = current

\* slow path: let _ = self.hash.compare_exchange(u64::MIN, computed_hash, ..)
HashCas(t) ==
  /\ pc[t] = "computed"
  /\ hash' = [hash EXCEPT ![self[t]] = CompareExchange(@, U64_MIN, computed_hash[t])]
  /\ wins' = [wins EXCEPT ![self[t]] =
                IF CompareExchangeOk(hash[self[t]], U64_MIN) THEN @ + 1 ELSE @]
  /\ pc' = [pc EXCEPT ![t] = "swapped"]
  /\ UNCHANGED <<st, value, hasher, self, loaded, computed_hash, state, ret,
                 orig, cloneOf, warm, born, started, computes, overlap, fed>>

\* A slow path that feeds the strategy's digest as it came, not the remapped one.
HashWriteRaw(t) ==
  /\ pc[t] = "swapped"
  /\ Feed(t, HashOne(hasher[self[t]], value[self[t]]))
  /\ UNCHANGED <<wrapperVars, self, loaded, computed_hash, ret, orig,
                 cloneOf, warm, born, wins, started, computes, overlap>>

\* slow path: state.write_u64(computed_hash)
HashWrite(t) ==
  /\ pc[t] = "swapped"
  /\ Feed(t, computed_hash[t])
  /\ UNCHANGED <<wrapperVars, self, loaded, computed_hash, ret, orig,
                 cloneOf, warm, born, wins, started, computes, overlap>>

\* calculate_hash: s.finish(); the caller is done with its state.
CalcFinish(t) ==
  /\ pc[t] = "done"
  /\ pc' = [pc EXCEPT ![t] = "idle"]
  /\ self' = [self EXCEPT ![t] = 0]
  /\ loaded' = [loaded EXCEPT ![t] = 0]
  /\ computed_hash' = [computed_hash EXCEPT ![t] = 0]
  /\ state' = [state EXCEPT ![t] = <<>>]
  /\ UNCHANGED <<wrapperVars, ret, histVars>>

\* ------------------------------------------------- the other operations
\* <T as PartialEq>::eq and <T as Ord>::cmp of the integer T.
ValueEq(x, y) == x = y
ValueCmp(x, y) == IF x < y THEN "Less" ELSE IF x = y THEN "Equal" ELSE "Greater"
\* <T as PartialOrd>::partial_cmp of the integer T.
ValuePartialCmp(x, y) == <<"Some", ValueCmp(x, y)>>

\* An equality that first rejects on differing cache words.
eqByHash(a, b) == hash[a] = hash[b] /\ ValueEq(value[a], value[b])

\* <HashMemo as PartialEq>::eq(&self, other)
eq(a, b) == ValueEq(value[a], value[b])

\* <HashMemo as PartialOrd>::partial_cmp(&self, other)
partial_cmp(a, b) == ValuePartialCmp(value[a], value[b])

\* <HashMemo as Ord>::cmp(&self, other)
cmp(a, b) == ValueCmp(value[a], value[b])

\* <HashMemo as AsRef<T>>::as_ref(&self)
as_ref(a) == value[a]

\* <HashMemo as Borrow<T>>::borrow(&self)
borrow(a) == value[a]

\* An unwrap that returns the wrong field.
into_innerHash(a) == hash[a]

\* HashMemo::into_inner(self)
into_inner(a) == value[a]

Return(op, a, b, val) ==
  /\ ret' = [op |-> op, a |-> a, b |-> b, val |-> val]
  /\ UNCHANGED <<threadVars, histVars>>

Eq(a, b) ==
  /\ a # b
  /\ st[a] = "live" /\ st[b] = "live"
  /\ Return("eq", a, b, eq(a, b))
  /\ UNCHANGED wrapperVars

PartialCmp(a, b) ==
  /\ a # b
  /\ st[a] = "live" /\ st[b] = "live"
  /\ Return("partial_cmp", a, b, partial_cmp(a, b))
  /\ UNCHANGED wrapperVars

Cmp(a, b) ==
  /\ a # b
  /\ st[a] = "live" /\ st[b] = "live"
  /\ Return("cmp", a, b, cmp(a, b))
  /\ UNCHANGED wrapperVars

\* An as_ref that resets the cache, as if it handed out mutable access.
AsRefInvalidate(a) ==
  /\ st[a] = "live"
  /\ Return("as_ref", a, 0, as_ref(a))
  /\ hash' = [hash EXCEPT ![a] = U64_MIN]
  /\ UNCHANGED <<st, value, hasher>>

AsRef(a) ==
  /\ st[a] = "live"
  /\ Return("as_ref", a, 0, as_ref(a))
  /\ UNCHANGED wrapperVars

\* A borrow that resets the cache, as if it handed out mutable access.
BorrowInvalidate(a) ==
  /\ st[a] = "live"
  /\ Return("borrow", a, 0, borrow(a))
  /\ hash' = [hash EXCEPT ![a] = U64_MIN]
  /\ UNCHANGED <<st, value, hasher>>

Borrow(a) ==
  /\ st[a] = "live"
  /\ Return("borrow", a, 0, borrow(a))
  /\ UNCHANGED wrapperVars

\* into_inner takes the wrapper by value: no call may still borrow it.
IntoInner(a) ==
  /\ st[a] = "live"
  /\ ~Borrowed(a)
  /\ Return("into_inner", a, 0, into_inner(a))
  /\ st' = [st EXCEPT ![a] = "moved"]
  /\ UNCHANGED <<value, hash, hasher>>

Next ==
  \/ \E v \in Values, s \in Seeds : WithHasher(v, s)
  \/ \E v \in Values : New(v)
  \/ \E v \in Values : From(v)
  \/ \E i \in Insts : Clone(i)
  \/ \E t \in Threads, i \in Insts : HashLoad(t, i)
  \/ \E t \in Threads : HashFast(t)
  \/ \E t \in Threads : HashCompute(t)
  \/ \E t \in Threads : HashCas(t)
  \/ \E t \in Threads : HashWrite(t)
  \/ \E t \in Threads : CalcFinish(t)
  \/ \E a, b \in Insts : Eq(a, b)
  \/ \E a, b \in Insts : PartialCmp(a, b)
  \/ \E a, b \in Insts : Cmp(a, b)
  \/ \E a \in Insts : AsRef(a)
  \/ \E a \in Insts : Borrow(a)
  \/ \E a \in Insts : IntoInner(a)

Spec == Init /\ [][Next]_vars

TypeOK ==
  /\ st \in [Insts -> {"free", "live", "moved"}]
  /\ value \in [Insts -> Values]
  /\ hash \in [Insts -> 0..(DigestMod - 1)]
  /\ hasher \in [Insts -> Seeds]
\* ------------------------------------------------------------------ claims
\* The hash calls started on i have all returned, and there is at least one.
AllReturned(i) == started[i] > 0 /\ ~Borrowed(i)

\* C1 (concurrent race convergence): under every interleaving of the load,
\* compute and compare-and-swap steps of the calls on one instance, all calls
\* feed one and the same digest, and once all of them have returned the cache
\* cell holds exactly that digest.
C1_RaceConvergence ==
  \A i \in Insts :
    /\ Cardinality(fed[i]) <= 1
    /\ AllReturned(i) => fed[i] = {hash[i]}

\* Two calls raced on a fresh instance, both computed the digest, both returned.
C1_Witness ==
  \E i \in Insts :
    /\ born[i] = 0 /\ overlap[i] /\ computes[i] = 2
    /\ AllReturned(i) /\ fed[i] = {hash[i]}

\* C2 as stated (single computation): once the hash calls on an instance
\* (taken in the claim's favour: one constructed with an empty cache) have
\* returned, however many they were, the strategy digested the value exactly
\* once.
C2_ExactlyOnce ==
  \A i \in Insts : (AllReturned(i) /\ born[i] = 0) => computes[i] = 1

\* C2 as amended: on an instance constructed with an empty cache whose hash
\* calls did not overlap, the value is digested exactly once however many
\* calls there were; with overlapping calls it is digested at least once and
\* at most once per call.
C2_OnceWhenSequential ==
  \A i \in Insts :
    (AllReturned(i) /\ born[i] = 0) =>
       /\ 1 <= computes[i] /\ computes[i] <= started[i]
       /\ ~overlap[i] => computes[i] = 1

\* MaxCalls calls, one after the other, on a fresh instance: one computation.
C2_Witness ==
  \E i \in Insts :
    /\ born[i] = 0 /\ ~overlap[i] /\ started[i] = MaxCalls
    /\ AllReturned(i) /\ computes[i] = 1

\* C3 (determinism across repeated calls): every hash call on an instance
\* feeds the identical digest, the first one (slow path) and the later ones
\* (fast path) alike: a returned call's state holds that one digest and
\* nothing else.
C3_Determinism ==
  /\ \A i \in Insts : \A d1, d2 \in fed[i] : d1 = d2
  /\ \A t \in Threads :
       pc[t] = "done" => \E d \in fed[self[t]] : state[t] = <<d>> /\ fed[self[t]] = {d}

\* A slow-path call returned, and a later call on the fast path returned too.
C3_Witness ==
  \E t \in Threads :
    /\ pc[t] = "done" /\ loaded[t] # 0
    /\ born[self[t]] = 0 /\ computes[self[t]] = 1 /\ started[self[t]] = 2
    /\ ~overlap[self[t]]

\* C4 (zero-sentinel remap): when the strategy digests the value to 0, the
\* cache holds 0 (not yet stored) or 1, every call feeds 1, the cache is not 0
\* once a call has returned.
C4_ZeroRemap ==
  \A i \in Insts :
    /\ (Made(i) /\ HashOne(hasher[i], value[i]) = 0) =>
          /\ hash[i] \in {0, 1}
          /\ fed[i] \subseteq {1}
    /\ fed[i] # {} => hash[i] # 0

\* A zero-digest value was hashed twice: 1 is cached and was fed both times.
C4_Witness ==
  \E i \in Insts :
    /\ HashOne(hasher[i], value[i]) = 0
    /\ started[i] = 2 /\ AllReturned(i)
    /\ hash[i] = 1 /\ fed[i] = {1}

\* C5 (cache monotonicity, I1): a cache cell that holds a nonzero value never
\* changes again, whatever operation runs; its only change is from 0 to a
\* nonzero digest.
C5_CacheMonotonic ==
  [][\A i \in Insts :
       /\ hash[i] # 0 => hash'[i] = hash[i]
       /\ hash'[i] # hash[i] => (hash[i] = 0 /\ hash'[i] # 0)]_vars

\* A second compare-and-swap ran on a populated cell (the loser of a race).
C5_Witness ==
  \E t \in Threads :
    /\ pc[t] = "swapped"
    /\ computes[self[t]] = 2
    /\ \E u \in Threads : u # t /\ self[u] = self[t] /\ pc[u] \in {"swapped", "done"}
    /\ hash[self[t]] # 0

\* C6 as stated (borrow-for-lookup): what a returned hash call on wrap(v)
\* has written to the caller's hasher state is what hashing the borrowed raw
\* value v writes to such a state, so both land in the same bucket.
C6_BorrowHashAgrees ==
  \A t \in Threads :
    pc[t] = "done" => state[t] = ValueHash(borrow(self[t]))

\* C7 as stated (hash-container key requirement): two wrappers that compare
\* equal feed the same digest, whatever strategy instance each one holds.
C7_EqualImpliesSameDigest ==
  \A a, b \in Insts :
    (Made(a) /\ Made(b) /\ eq(a, b)) =>
       \A da \in fed[a], db \in fed[b] : da = db

\* C8 (stability across cloning): a clone starts with the cache word its
\* source held when it was cloned and with the source's value and strategy;
\* hashing the clone feeds the digest hashing the source feeds; the clone of a
\* source that had been hashed never computes the digest.
C8_CloneStable ==
  /\ [][\A j \in Insts :
          (st[j] = "free" /\ st'[j] = "live" /\ cloneOf'[j] # 0) =>
             /\ hash'[j] = hash[cloneOf'[j]]
             /\ value'[j] = value[cloneOf'[j]]
             /\ hasher'[j] = hasher[cloneOf'[j]]]_vars
  /\ [](\A j \in Insts :
          cloneOf[j] # 0 =>
             /\ \A d \in fed[j], e \in fed[cloneOf[j]] : d = e
             /\ warm[j] => (hash[j] # 0 /\ computes[j] = 0))

\* The clone of a hashed source was hashed itself: fast path, same digest.
C8_Witness ==
  \E j \in Insts :
    /\ cloneOf[j] # 0 /\ warm[j]
    /\ AllReturned(j) /\ computes[j] = 0
    /\ fed[j] = fed[cloneOf[j]]

\* C9 (equality/ordering transparency): eq, partial_cmp and cmp on two
\* wrappers return what the raw values they were made from return, whatever
\* the two cache cells hold.
C9_Transparent ==
  /\ ret.op = "eq" => ret.val = ValueEq(orig[ret.a], orig[ret.b])
  /\ ret.op = "partial_cmp" => ret.val = ValuePartialCmp(orig[ret.a], orig[ret.b])
  /\ ret.op = "cmp" => ret.val = ValueCmp(orig[ret.a], orig[ret.b])

\* Two wrappers of equal values whose caches hold different digests compared
\* equal.
C9_Witness ==
  /\ ret.op = "eq" /\ ret.val = TRUE
  /\ hash[ret.a] # 0 /\ hash[ret.b] # 0 /\ hash[ret.a] # hash[ret.b]

\* C10 (transparent unwrap): into_inner returns the value the wrapper was
\* made from, also after hash calls and clones of the wrapper.
C10_IntoInner ==
  ret.op = "into_inner" => ret.val = orig[ret.a]

\* A wrapper that was hashed and cloned was unwrapped.
C10_Witness ==
  /\ ret.op = "into_inner"
  /\ st[ret.a] = "moved"
  /\ fed[ret.a] # {} /\ hash[ret.a] # ret.val
  /\ \E j \in Insts : cloneOf[j] = ret.a

\* C11 (non-blocking hash): a hash call only moves forward through load,
\* then either the fast-path write or compute, compare-and-swap and write: it
\* never goes back to retry, also after a lost compare-and-swap; and a running
\* call always has its next step enabled, whatever the other callers do.
C11_NonBlocking ==
  /\ [][\A t \in Threads :
          pc'[t] # pc[t] =>
            <<pc[t], pc'[t]>> \in
              { <<"idle", "loaded">>, <<"loaded", "done">>, <<"loaded", "computed">>,
                <<"computed", "swapped">>, <<"swapped", "done">>, <<"done", "idle">> }]_vars
  /\ [](\A t \in Threads :
          Running(t) =>
            ENABLED (HashFast(t) \/ HashCompute(t) \/ HashCas(t) \/ HashWrite(t)))

\* Two slow-path calls on one instance both returned; one of them lost the
\* compare-and-swap.
C11_Witness ==
  \E t, u \in Threads :
    /\ t # u /\ self[t] = self[u]
    /\ pc[t] = "done" /\ pc[u] = "done"
    /\ loaded[t] = 0 /\ loaded[u] = 0
    /\ wins[self[t]] = 1

\* C12 (fresh wrappers are uncomputed): new, with_hasher and from construct a
\* wrapper whose cache is 0, and the first hash call on it loads 0, computes
\* the digest and attempts the store.
C12_FreshUncomputed ==
  /\ [][\A j \in Insts :
          (st[j] = "free" /\ st'[j] = "live" /\ cloneOf'[j] = 0) =>
             hash'[j] = U64_MIN]_vars
  /\ [](\A t \in Threads :
          (pc[t] # "idle" /\ cloneOf[self[t]] = 0 /\ started[self[t]] = 1) =>
             /\ loaded[t] = 0
             /\ pc[t] \in {"swapped", "done"} =>
                   (computes[self[t]] = 1 /\ wins[self[t]] = 1))

\* The first call on a constructed wrapper has computed and stored.
C12_Witness ==
  \E t \in Threads :
    /\ pc[t] = "swapped"
    /\ cloneOf[self[t]] = 0 /\ started[self[t]] = 1
    /\ computes[self[t]] = 1 /\ hash[self[t]] = computed_hash[t]

\* C13 (cache content invariant): a cache cell holds 0 or remap(d), d being
\* the strategy's digest of the instance's value, remap(0) = 1 and remap(d) = d
\* otherwise; nothing else is ever fed.
C13_CacheContent ==
  \A i \in Insts :
    Made(i) =>
      LET d == HashOne(hasher[i], value[i])
          r == IF d = 0 THEN 1 ELSE d
      IN  /\ hash[i] \in {0, r}
          /\ fed[i] \subseteq {r}

\* A digest other than 0 and 1 was stored and fed as it is, and cloned.
C13_Witness ==
  \E i, j \in Insts :
    /\ HashOne(hasher[i], value[i]) = 2
    /\ hash[i] = 2 /\ fed[i] = {2}
    /\ cloneOf[j] = i /\ hash[j] = 2

\* C14 (exactly one store wins): on an instance constructed with an empty
\* cache at most one compare-and-swap succeeds, exactly one has succeeded once
\* a hash call has returned, and a compare-and-swap that fails leaves the cell
\* as it was.
C14_OneStoreWins ==
  /\ [](\A i \in Insts :
          (Made(i) /\ born[i] = 0) =>
             /\ wins[i] <= 1
             /\ fed[i] # {} => wins[i] = 1)
  /\ [][\A t \in Threads :
          (pc[t] = "computed" /\ pc'[t] = "swapped"
             /\ wins'[self[t]] = wins[self[t]]) => hash' = hash]_vars

\* Two racers both ran their compare-and-swap and returned: one store won.
C14_Witness ==
  \E i \in Insts :
    /\ born[i] = 0 /\ computes[i] = 2 /\ AllReturned(i)
    /\ wins[i] = 1 /\ hash[i] # 0

\* C15 (fast path): the step of a call that loaded a nonzero cache writes
\* exactly the loaded value to the caller's state and returns; it does not
\* invoke the strategy (the only use of the value) and writes no wrapper field.
C15_FastPath ==
  [][\A t \in Threads :
       (pc[t] = "loaded" /\ loaded[t] # 0 /\ pc'[t] # pc[t]) =>
          /\ pc'[t] = "done"
          /\ state'[t] = <<loaded[t]>>
          /\ computes' = computes /\ wins' = wins
          /\ wrapperVars' = wrapperVars]_vars

\* A call returned on the fast path of an instance that never computed.
C15_Witness ==
  \E t \in Threads :
    /\ pc[t] = "done" /\ loaded[t] # 0 /\ state[t] = <<loaded[t]>>
    /\ computes[self[t]] = 0

\* C16 (bounded redundant computation): a call that starts once a call on the
\* same instance has returned loads a populated cache and never computes; only
\* a call that loaded 0 computes, and it does so once.
C16_NoLateCompute ==
  /\ [][\A t \in Threads :
          /\ (pc[t] = "idle" /\ pc'[t] = "loaded" /\ fed[self'[t]] # {}) =>
                loaded'[t] # 0
          /\ (pc[t] # "computed" /\ pc'[t] = "computed") =>
                /\ loaded[t] = 0
                /\ computes'[self[t]] = computes[self[t]] + 1]_vars
  /\ [](\A t \in Threads :
          (pc[t] # "idle" /\ loaded[t] # 0) => pc[t] \in {"loaded", "done"})
  /\ [](\A i \in Insts : computes[i] <= started[i])

\* A call started after another one had returned; it loaded the stored digest.
C16_Witness ==
  \E t \in Threads :
    /\ pc[t] = "loaded" /\ loaded[t] # 0
    /\ born[self[t]] = 0 /\ fed[self[t]] # {}
    /\ computes[self[t]] = 1

\* C17 (frame): no operation changes the value or the strategy of a wrapper;
\* the cache cell of a wrapper changes only in the compare-and-swap of a hash
\* call on that wrapper, so as_ref, borrow, eq, partial_cmp, cmp and clone
\* leave all three fields of every wrapper as they were; a hash call does not
\* end a wrapper's life.
C17_Frame ==
  [][/\ \A i \in Insts :
          Made(i) =>
             /\ value'[i] = value[i]
             /\ hasher'[i] = hasher[i]
             /\ hash'[i] # hash[i] =>
                   \E t \in Threads :
                      self[t] = i /\ pc[t] = "computed" /\ pc'[t] = "swapped"
     /\ pc' # pc => st' = st]_vars

\* A hashed and cloned wrapper was borrowed through as_ref.
C17_Witness ==
  /\ ret.op = "as_ref"
  /\ hash[ret.a] # 0 /\ fed[ret.a] # {}
  /\ \E j \in Insts : cloneOf[j] = ret.a

\* C18 (clone independence): a step of a hash call on a clone leaves the
\* source's cell unchanged and a step of a call on the source leaves the
\* clone's cell unchanged; a clone born uncomputed stays so until it is hashed;
\* a clone holds at birth 0 or the digest its source ends with.
C18_CloneIndependent ==
  /\ [][\A i, j \in Insts :
          (Made(j) /\ cloneOf[j] = i) =>
             \A t \in Threads :
                pc'[t] # pc[t] =>
                   /\ self[t] = j => hash'[i] = hash[i]
                   /\ self[t] = i => hash'[j] = hash[j]]_vars
  /\ [](\A j \in Insts :
          cloneOf[j] # 0 =>
             /\ (born[j] = 0 /\ started[j] = 0) => hash[j] = 0
             /\ hash[cloneOf[j]] # 0 => born[j] \in {0, hash[cloneOf[j]]})

\* The source was hashed after it was cloned: the clone is still uncomputed.
C18_Witness ==
  \E j \in Insts :
    /\ cloneOf[j] # 0 /\ born[j] = 0 /\ hash[j] = 0
    /\ hash[cloneOf[j]] # 0 /\ fed[cloneOf[j]] # {}

=============================================================================
